---------------------------- MODULE Spec2Model ----------------------------
(***************************************************************************)
(* GEOseis 2: station discovery (data_manager.py) and signal processing    *)
(* (seismic_processor.py).                                                 *)
(*                                                                         *)
(* Units.  Frequencies and sampling rates are integers in mHz, distances   *)
(* are integers in tenths of a kilometre (the code rounds distance_km to   *)
(* one decimal).  Every comparison the code makes on floats is made here   *)
(* on exact integers after cross-multiplication (x >= nyquist * 0.95 is    *)
(* 40 * x >= 19 * sampling_rate).                                          *)
(*                                                                         *)
(* For the filter and the magnitude, sample arrays are described by their  *)
(* length, the number of non-finite samples they hold and how they were    *)
(* produced.  Spike removal and waveform processing work on arrays of      *)
(* integer samples; the values filtfilt computes are not modelled.         *)
(* The peak-period step of the magnitude view (GEOSeis2_0.py) works on a   *)
(* spectrum given by the length of the window in seconds and the           *)
(* amplitude of every positive-frequency bin.                              *)
(***************************************************************************)
EXTENDS Integers, Sequences, FiniteSets, TLC

VARIABLES
    flt,      \* the last call of apply_bandpass_filter: pc, args, result
    ms,       \* the last call of calculate_ms_magnitude: pc, args, result
    sel,      \* the last call of _select_distributed_stations
    val,      \* the frame of _validate_stations_parallel
    futures,  \* the state of every probe submitted to the executor
    srch,     \* the frame of search_stations
    inventory_cache,  \* st.session_state.inventory_cache
    spk,      \* the last two calls of remove_spikes: pc, data, results
    wf,       \* the frame of process_waveform_with_filtering
    heap,     \* the sample arrays that exist: identity -> contents
    pk        \* the last run of the peak-period step: pc, args, result

vars == << flt, ms, sel, val, futures, srch, inventory_cache, spk, wf, heap, pk >>

---------------------------------------------------------------------------
(* Encodings *)

\* Python's None where the code expects a number (low_freq, high_freq, depth)
None == 0 - 1

\* one Hz in the model's frequency unit (mHz)
Hz == 1000

\* an array of samples: its length, its non-finite samples, its origin
Samples(n, bad, kind) == [len |-> n, bad |-> bad, kind |-> kind]

---------------------------------------------------------------------------
(* seismic_processor.py: apply_bandpass_filter *)

\* self.filter_order
filter_order == 4

\* len(clean_data) < len(data) * 0.5
TooManyInvalid_Inclusive(data) == 2 * (data.len - data.bad) <= data.len

TooManyInvalid(data) == 2 * (data.len - data.bad) < data.len

\* f >= nyquist * 0.95, with nyquist = sampling_rate / 2.0
NearNyquist(f, sampling_rate) == 40 * f >= 19 * sampling_rate

\* f >= nyquist
AtOrAboveNyquist(f, sampling_rate) == 2 * f >= sampling_rate

\* adjusted_high = nyquist * 0.9
AdjustedHigh(sampling_rate) == (9 * sampling_rate) \div 20

\* adjusted_low = 0.005, used when low_freq <= 0.001
AdjustedLow == 5

\* low_freq <= 0.001
LowTooSmall(low_freq) == low_freq <= 1

\* the band-pass branch's test  low_freq >= high_freq
InvalidBand_NoCheck(low_freq, high_freq) == FALSE

InvalidBand(low_freq, high_freq) == low_freq >= high_freq

\* scipy.signal.butter on normalised frequencies f / nyquist: a digital
\* critical frequency must satisfy 0 < Wn < 1; with two of them a library
\* that validates the band (strict) also requires Wn[0] < Wn[1].  A library
\* that does not designs a filter from an inverted band, and from an empty
\* band (Wn[0] = Wn[1], zero bandwidth) one whose output is not finite.
ButterFails(btype, f1, f2, sampling_rate, strict) ==
    LET inside(f) == f > 0 /\ 2 * f < sampling_rate
    IN  IF btype = "band"
        THEN ~inside(f1) \/ ~inside(f2) \/ (strict /\ f1 >= f2)
        ELSE ~inside(f1)

\* filtfilt's default padlen = 3 * max(len(a), len(b)); butter returns
\* 2 * order + 1 coefficients for a band and order + 1 otherwise.
PadLen(btype, order) ==
    3 * (IF btype = "band" THEN 2 * order + 1 ELSE order + 1)

FilterFailure(data, reason) ==
    [data |-> data,
     status |-> [success |-> FALSE, reason |-> reason, filter_type |-> "none",
                 low_freq |-> None, high_freq |-> None]]

\* lines 176-206: filtfilt, the check of its output, the success result
FilterApply(data, btype, filter_type, f1, f2, low_freq, high_freq, sampling_rate, order, lib) ==
    IF ButterFails(btype, f1, f2, sampling_rate, lib.strict)
    THEN FilterFailure(data, "unexpected_error")
    ELSE IF data.len <= PadLen(btype, order)
    THEN FilterFailure(data, "filter_error")
    ELSE IF ~lib.finite \/ (btype = "band" /\ f1 = f2)
    THEN FilterFailure(data, "filter_produced_invalid")
    ELSE [data |-> Samples(data.len, 0, "filtered"),
          status |-> [success |-> TRUE, reason |-> "none",
                      filter_type |-> filter_type,
                      low_freq |-> low_freq, high_freq |-> high_freq]]

\* lines 123-134: low_freq is None or <= 0
HighpassBranch(data, sampling_rate, low_freq, high_freq, order, lib) ==
    IF high_freq = None
    THEN FilterFailure(data, "unexpected_error")
    ELSE IF NearNyquist(high_freq, sampling_rate)
    THEN FilterFailure(data, "frequency_too_high")
    ELSE FilterApply(data, "high", "highpass", high_freq, high_freq,
                     low_freq, high_freq, sampling_rate, order, lib)

\* lines 137-148: high_freq is None or >= nyquist
LowpassBranch(data, sampling_rate, low_freq, high_freq, order, lib) ==
    IF NearNyquist(low_freq, sampling_rate)
    THEN FilterFailure(data, "frequency_too_high")
    ELSE FilterApply(data, "low", "lowpass", low_freq, low_freq,
                     low_freq, high_freq, sampling_rate, order, lib)

\* lines 150-174: both frequencies given, high_freq below nyquist
BandpassBranch(data, sampling_rate, low_freq, high_freq, order, lib) ==
    IF InvalidBand(low_freq, high_freq)
    THEN FilterFailure(data, "invalid_band")
    ELSE LET high == IF NearNyquist(high_freq, sampling_rate)
                     THEN AdjustedHigh(sampling_rate) ELSE high_freq
             low  == IF LowTooSmall(low_freq) THEN AdjustedLow ELSE low_freq
         IN  FilterApply(data, "band", "bandpass", low, high, low, high,
                         sampling_rate, order, lib)

\* lib is the library's behaviour on this call: strict (butter rejects
\* Wn[0] >= Wn[1]) and finite (filtfilt's output holds no NaN or inf).
apply_bandpass_filter(data, sampling_rate, low_freq, high_freq, order, lib) ==
    IF data.len = 0
    THEN FilterFailure(data, "empty_data")
    ELSE IF data.bad > 0 /\ TooManyInvalid(data)
    THEN FilterFailure(data, "invalid_data")
    ELSE LET clean == IF data.bad > 0
                      THEN Samples(data.len - data.bad, 0, "cleaned")
                      ELSE data
         IN  IF low_freq = None \/ low_freq <= 0
             THEN HighpassBranch(clean, sampling_rate, low_freq, high_freq,
                                 order, lib)
             ELSE IF high_freq = None \/ AtOrAboveNyquist(high_freq, sampling_rate)
             THEN LowpassBranch(clean, sampling_rate, low_freq, high_freq,
                                order, lib)
             ELSE BandpassBranch(clean, sampling_rate, low_freq, high_freq,
                                 order, lib)

---------------------------------------------------------------------------
(* Inputs of the signal-processing calls *)

\* longest sample array of a call
MaxSamples == 40

SampleLengths == {0, 1, 20, MaxSamples}

SampleArrays ==
    { Samples(n, b, "raw") : n \in SampleLengths, b \in {0} } \cup
    { Samples(MaxSamples, b, "raw") :
        b \in {1, MaxSamples \div 2, MaxSamples \div 2 + 1} }

SamplingRates == {Hz \div 2, Hz, 20 * Hz, 100 * Hz}

Frequencies ==
    {None, 0, 1, 20, Hz \div 2, Hz, 9 * Hz, 9200, 9500, 9800, 10 * Hz, 11 * Hz}

Libraries == [strict : BOOLEAN, finite : BOOLEAN]

---------------------------------------------------------------------------
(* seismic_processor.py: calculate_ms_magnitude *)

\* one kilometre in the model's distance unit (tenths of a kilometre)
KM == 10

\* distance_km < 200
DistanceTooShort_Inclusive(distance_km) == distance_km <= 200 * KM

DistanceTooShort(distance_km) == distance_km < 200 * KM

\* distance_km > 16000
DistanceTooLong(distance_km) == distance_km > 16000 * KM

\* nyquist < 0.5, with nyquist = sampling_rate / 2.0
NyquistTooLow(sampling_rate) == sampling_rate < Hz

\* the names the module's import statements bind (lines 7-21); the import
\* statements inside other functions bind names local to those functions
ModuleNames ==
    {"np", "st", "butter", "filtfilt", "medfilt", "fft", "fftfreq", "go",
     "make_subplots", "locations2degrees", "gps2dist_azimuth", "TauPyModel",
     "ADVANCED_FEATURES"}

MsFailure(error) ==
    [kind |-> "failure", error |-> error, amplitude_um |-> 0,
     used_component |-> "none", depth_correction |-> 0, filtered |-> << >>]

\* lines 529-534: the handler builds its dict with traceback.format_exc();
\* a name that is not bound raises NameError out of the handler
MsExceptClause ==
    IF "traceback" \in ModuleNames
    THEN MsFailure("Beregningsfejl")
    ELSE [kind |-> "raised", error |-> "NameError", amplitude_um |-> 0,
          used_component |-> "none", depth_correction |-> 0,
          filtered |-> << >>]

\* numpy broadcasting of two one-dimensional arrays
Broadcastable(a, b) == a = b \/ a = 1 \/ b = 1

\* a depth correction applied at every depth that is given
DepthCorrection_AnyDepth(earthquake_depth_km) ==
    IF earthquake_depth_km # None
    THEN 0 - 35 * (earthquake_depth_km - 50)
    ELSE 0

\* lines 488-492: depth_correction = -0.0035 * (depth - 50), in units of
\* 0.0001
DepthCorrection(earthquake_depth_km) ==
    IF earthquake_depth_km # None /\ earthquake_depth_km # 0
       /\ earthquake_depth_km > 50
    THEN 0 - 35 * (earthquake_depth_km - 50)
    ELSE 0

\* amp holds the peaks np.max finds in the arrays the filter calls returned:
\* the vertical peak and the peak of sqrt(north^2 + east^2), in micrometres.
\* The magnitude is log10(amplitude_um / 20) + 1.66 log10(distance_deg) + 3.3
\* plus depth_correction; the result keeps its terms.
calculate_ms_magnitude(north_data, east_data, vertical_data, distance_km, sampling_rate, earthquake_depth_km, amp, lib) ==
    IF DistanceTooShort(distance_km) THEN MsFailure("Afstand for kort")
    ELSE IF DistanceTooLong(distance_km) THEN MsFailure("Afstand for lang")
    ELSE IF NyquistTooLow(sampling_rate) THEN MsFailure("Sampling rate for lav")
    ELSE
    LET low_freq  == 20
        high_freq == IF Hz \div 2 <= AdjustedHigh(sampling_rate)
                     THEN Hz \div 2 ELSE AdjustedHigh(sampling_rate)
        Filter(d) == apply_bandpass_filter(d, sampling_rate, low_freq,
                                           high_freq, filter_order, lib)
        vert  == Filter(vertical_data)
        north == Filter(north_data)
        east  == Filter(east_data)
    IN  IF vert.data.len = 0 \/ north.data.len = 0 \/ east.data.len = 0
        THEN MsExceptClause      \* np.max of an empty array: ValueError
        ELSE IF ~Broadcastable(north.data.len, east.data.len)
        THEN MsExceptClause      \* north**2 + east**2: ValueError
        ELSE [kind |-> "magnitude", error |-> "none",
              amplitude_um |-> IF amp.vert >= amp.horiz
                               THEN amp.vert ELSE amp.horiz,
              used_component |-> IF amp.vert >= amp.horiz
                                 THEN "vertikal" ELSE "horizontal",
              depth_correction |-> DepthCorrection(earthquake_depth_km),
              filtered |-> << vert.status.success, north.status.success,
                              east.status.success >>]

MsArrays ==
    { Samples(n, 0, "raw") : n \in SampleLengths } \cup
    { Samples(MaxSamples, 1, "raw") }

MsDistances ==
    {100 * KM, 200 * KM - 1, 200 * KM, 1500 * KM, 16000 * KM,
     16000 * KM + 1, 17000 * KM}

MsSamplingRates == {Hz \div 2, Hz - 1, Hz, 20 * Hz}

MsDepths == {None, 0, 50, 51}

MsAmplitudes ==
    { [vert |-> 5, horiz |-> 3], [vert |-> 3, horiz |-> 5],
      [vert |-> 5, horiz |-> 5] }

---------------------------------------------------------------------------
(* Specifications of the signal-processing calls *)

IdleCall == [pc |-> "idle"]

CallFilter ==
    /\ flt.pc = "idle"
    /\ \E data \in SampleArrays, sr \in SamplingRates,
          low \in Frequencies, high \in Frequencies, lib \in Libraries :
        flt' = [pc |-> "returned",
                args |-> [data |-> data, sampling_rate |-> sr,
                          low_freq |-> low, high_freq |-> high, lib |-> lib],
                result |-> apply_bandpass_filter(data, sr, low, high,
                                                 filter_order, lib)]
    /\ UNCHANGED << pk, spk, wf, heap, ms, sel, val, futures, srch, inventory_cache >>

CallMs ==
    /\ ms.pc = "idle"
    /\ \E n \in MsArrays, e \in MsArrays, z \in MsArrays,
          d \in MsDistances, sr \in MsSamplingRates, depth \in MsDepths,
          amp \in MsAmplitudes, finite \in BOOLEAN :
        ms' = [pc |-> "returned",
               args |-> [north_data |-> n, east_data |-> e,
                         vertical_data |-> z, distance_km |-> d,
                         sampling_rate |-> sr, earthquake_depth_km |-> depth,
                         amp |-> amp],
               result |-> calculate_ms_magnitude(
                              n, e, z, d, sr, depth, amp,
                              [strict |-> TRUE, finite |-> finite])]
    /\ UNCHANGED << pk, spk, wf, heap, flt, sel, val, futures, srch, inventory_cache >>

Init ==
    /\ flt = IdleCall /\ ms = IdleCall /\ sel = IdleCall
    /\ val = IdleCall /\ futures = << >>
    /\ srch = IdleCall /\ inventory_cache = {}
    /\ spk = IdleCall /\ wf = IdleCall /\ heap = << >>
    /\ pk = IdleCall

SpecFilter == Init /\ [][CallFilter]_vars

SpecMs == Init /\ [][CallMs]_vars

---------------------------------------------------------------------------
(* Claims about the signal-processing calls *)

FltReturned == flt.pc = "returned"

\* the call names a band: low_freq > 0 and high_freq given
ExplicitBand == flt.args.low_freq > 0 /\ flt.args.high_freq # None

\* C7: a call of apply_bandpass_filter with an explicit band (low and high
\* both given, low > 0) in which low >= high never returns a success
\* status, whatever the sampling rate and the branch it is routed to.
C7_BandValidity ==
    (FltReturned /\ ExplicitBand
        /\ flt.args.low_freq >= flt.args.high_freq)
    => ~flt.result.status.success

\* C7's case: low >= high with high above Nyquist, routed to the low-pass
\* branch and refused there
C7_Witness ==
    /\ FltReturned
    /\ flt.args.sampling_rate = 20 * Hz
    /\ flt.args.low_freq = 11 * Hz
    /\ flt.args.high_freq = 10 * Hz
    /\ flt.args.data = Samples(MaxSamples, 0, "raw")
    /\ flt.result.status.reason = "frequency_too_high"

\* C8: a band request with low given and high >= 0.95 x Nyquist, high above
\* Nyquist included, on input the filter can process (finite samples, more
\* than the padding length, low below the clamped high, finite output)
\* succeeds as a band-pass and reports high clamped to 0.9 x Nyquist.
C8_NyquistClamp ==
    (FltReturned /\ ExplicitBand
        /\ NearNyquist(flt.args.high_freq, flt.args.sampling_rate)
        /\ flt.args.low_freq < AdjustedHigh(flt.args.sampling_rate)
        /\ flt.args.data.bad = 0
        /\ flt.args.data.len > PadLen("band", filter_order)
        /\ flt.args.lib.finite)
    => /\ flt.result.status.success
       /\ flt.result.status.filter_type = "bandpass"
       /\ flt.result.status.high_freq = AdjustedHigh(flt.args.sampling_rate)

MsReturned == ms.pc = "returned"

MsPreconditionTags ==
    {"Afstand for kort", "Afstand for lang", "Sampling rate for lav"}

\* C9: calculate_ms_magnitude returns no magnitude and the matching failure
\* tag when distance_km < 200, when distance_km > 16000 and when the Nyquist
\* frequency is below 0.5 Hz; 200 km, 16000 km and a Nyquist frequency of
\* exactly 0.5 Hz pass the three checks.
C9_MsPreconditions ==
    MsReturned =>
        LET d  == ms.args.distance_km
            sr == ms.args.sampling_rate
            r  == ms.result
            Fails(tag) == r.kind = "failure" /\ r.error = tag
        IN  /\ d < 200 * KM => Fails("Afstand for kort")
            /\ d > 16000 * KM => Fails("Afstand for lang")
            /\ (d >= 200 * KM /\ d <= 16000 * KM /\ 2 * (Hz \div 2) > sr)
                   => Fails("Sampling rate for lav")
            /\ (d >= 200 * KM /\ d <= 16000 * KM /\ 2 * (Hz \div 2) <= sr)
                   => r.error \notin MsPreconditionTags

\* C9's case: the boundary values 200 km and Nyquist = 0.5 Hz are accepted
\* and the call goes on to compute a magnitude
C9_Witness ==
    /\ MsReturned
    /\ ms.args.distance_km = 200 * KM
    /\ ms.args.sampling_rate = Hz
    /\ ms.result.kind = "magnitude"

\* C10: calculate_ms_magnitude never lets an exception escape: every call
\* returns a magnitude or a tagged failure.
C10_NoExceptionEscapes == MsReturned => ms.result.kind # "raised"

---------------------------------------------------------------------------
(* Sequences *)

\* lexicographic order on tuples of integers of one length
LexLess(a, b) ==
    \E i \in 1..Len(a) : a[i] < b[i] /\ \A j \in 1..(i - 1) : a[j] = b[j]

\* Python's stable sort of s on the keys k (k[i] is the key of s[i])
SortedBy(s, k) ==
    LET n == Len(s)
        Before(j, i) == LexLess(k[j], k[i]) \/ (k[j] = k[i] /\ j < i)
        rank == [i \in 1..n |-> Cardinality({j \in 1..n : Before(j, i)}) + 1]
    IN  [p \in 1..n |-> s[CHOOSE i \in 1..n : rank[i] = p]]

\* s[:n]
Take(s, n) == SubSeq(s, 1, IF n < Len(s) THEN n ELSE Len(s))

\* s[n:]
Drop(s, n) == SubSeq(s, n + 1, Len(s))

\* round(a / b) for a, b > 0
RoundDiv(a, b) == (2 * a + b) \div (2 * b)

---------------------------------------------------------------------------
(* data_manager.py: candidate stations *)

\* network_scores.get(network.code, 99)
network_scores(network) ==
    CASE network = "II" -> 0
      [] network = "IU" -> 1
      [] network \in {"G", "GE"} -> 2
      [] network = "GT" -> 3
      [] network \in {"US", "CN"} -> 4
      [] OTHER -> 99

\* a channel of the inventory: code = band + instrument + component
Channel(band, inst, comp, rate) ==
    [band |-> band, inst |-> inst, comp |-> comp, sample_rate |-> rate]

IsHH(ch) == ch.band = "H" /\ ch.inst = "H"
IsBH(ch) == ch.band = "B" /\ ch.inst = "H"
IsOtherH(ch) == ~IsHH(ch) /\ ~IsBH(ch) /\ ch.inst = "H"

\* the travel time the TauP model gives (an external table; milliseconds)
TravelTimeMs(phase, distance_km) ==
    IF phase = "P" THEN 10 * distance_km ELSE 18 * distance_km

\* distance_km / speed with the speed in tenths of km/s, in milliseconds
ConstantVelocityMs(distance_km, speed10) ==
    RoundDiv(1000 * distance_km, speed10)

\* the station dict of lines 486-509 (without the coordinates), with the two
\* keys validation may add held as "unset"
StationInfo(network, station, distance_km, p, s, rate, chanprio, years) ==
    [network |-> network, station |-> station, distance_km |-> distance_km,
     p_arrival |-> p, s_arrival |-> s,
     surface_arrival |-> ConstantVelocityMs(distance_km, 35),
     sample_rate |-> rate,
     network_priority |-> network_scores(network),
     channel_priority |-> chanprio, operational_years |-> years,
     data_source |-> "unset", data_verified |-> "None",
     verified_channels |-> "unset"]

\* the loop body without the distance test of lines 457-459
ProcessStation_NoRecheck(raw, distance_km, taup, eq_year, min_distance_km, max_distance_km) ==
    LET hh    == SelectSeq(raw.channels, IsHH)
        bh    == SelectSeq(raw.channels, IsBH)
        other == SelectSeq(raw.channels, IsOtherH)
        chanprio == IF hh # << >> THEN 1 ELSE IF bh # << >> THEN 2 ELSE 3
        rate  == IF hh # << >> THEN 100
                 ELSE IF bh # << >> THEN 40 ELSE other[1].sample_rate
        p == CASE taup = "raise" -> ConstantVelocityMs(distance_km, 80)
               [] taup = "noP"   -> None
               [] OTHER          -> TravelTimeMs("P", distance_km)
        s == CASE taup = "raise" -> ConstantVelocityMs(distance_km, 45)
               [] taup = "noS"   -> None
               [] OTHER          -> TravelTimeMs("S", distance_km)
        years == IF raw.start_year = None THEN 0 ELSE eq_year - raw.start_year
    IN  IF hh = << >> /\ bh = << >> /\ other = << >>
        THEN << >>
        ELSE << StationInfo(raw.network, raw.code, distance_km, p, s, rate,
                            chanprio, years) >>

\* lines 420-515 for one station of the inventory: << >> when it is skipped.
\* distance_km is gps2dist_azimuth's distance; taup is what get_travel_times
\* does for this station: "both", "noP", "noS" or "raise".
ProcessStation(raw, distance_km, taup, eq_year, min_distance_km, max_distance_km) ==
    LET hh    == SelectSeq(raw.channels, IsHH)
        bh    == SelectSeq(raw.channels, IsBH)
        other == SelectSeq(raw.channels, IsOtherH)
        chanprio == IF hh # << >> THEN 1 ELSE IF bh # << >> THEN 2 ELSE 3
        rate  == IF hh # << >> THEN 100
                 ELSE IF bh # << >> THEN 40 ELSE other[1].sample_rate
        p == CASE taup = "raise" -> ConstantVelocityMs(distance_km, 80)
               [] taup = "noP"   -> None
               [] OTHER          -> TravelTimeMs("P", distance_km)
        s == CASE taup = "raise" -> ConstantVelocityMs(distance_km, 45)
               [] taup = "noS"   -> None
               [] OTHER          -> TravelTimeMs("S", distance_km)
        years == IF raw.start_year = None THEN 0 ELSE eq_year - raw.start_year
    IN  IF hh = << >> /\ bh = << >> /\ other = << >>
        THEN << >>
        ELSE IF distance_km < min_distance_km \/ distance_km > max_distance_km
        THEN << >>
        ELSE << StationInfo(raw.network, raw.code, distance_km, p, s, rate,
                            chanprio, years) >>

---------------------------------------------------------------------------
(* data_manager.py: _select_distributed_stations *)

\* the large-pool path is taken above this many stations
FastThreshold == 100

\* lines 589-628: the bucket method
SelectBuckets(stations, target_count) ==
    LET stations_sorted ==
            SortedBy(stations,
                     [i \in 1..Len(stations) |-> << stations[i].distance_km >>])
        min_dist == stations_sorted[1].distance_km
        max_dist == stations_sorted[Len(stations_sorted)].distance_km
        \* bucket_min <= distance_km < bucket_max, with
        \* bucket_size = (max_dist - min_dist) / target_count
        InBucket(st, i) ==
            /\ target_count * min_dist + i * (max_dist - min_dist)
                   <= target_count * st.distance_km
            /\ target_count * st.distance_km
                   < target_count * min_dist + (i + 1) * (max_dist - min_dist)
        Bucket(i) == SelectSeq(stations_sorted, LAMBDA st : InBucket(st, i))
        Best(bucket) ==
            SortedBy(bucket,
                     [j \in 1..Len(bucket) |->
                         << bucket[j].network_priority,
                            0 - bucket[j].sample_rate,
                            bucket[j].channel_priority >>])[1]
        nonempty == SelectSeq([i \in 1..target_count |-> i - 1],
                              LAMBDA i : Bucket(i) # << >>)
        picked == [b \in 1..Len(nonempty) |-> Best(Bucket(nonempty[b]))]
        remaining ==
            SelectSeq(stations_sorted,
                      LAMBDA st : \A b \in 1..Len(picked) : picked[b] # st)
        selected == picked \o Take(remaining, target_count - Len(picked))
    IN  Take(selected, target_count)

\* lines 534-541: the first station of every (network, station) pair
UniqueStations(stations) ==
    LET n == Len(stations)
        First(i) == \A j \in 1..(i - 1) :
                        \/ stations[j].network # stations[i].network
                        \/ stations[j].station # stations[i].station
        kept == SelectSeq([i \in 1..n |-> i], First)
    IN  [k \in 1..Len(kept) |-> stations[kept[k]]]

\* lines 557-577: bins i, i + 1, ... of the target_count bins between the
\* edges np.linspace(min, max, target_count + 1); chosen holds the indices
\* picked so far, in the order they were picked
RECURSIVE FastPick(_, _, _, _)
FastPick(sorted_stations, target_count, i, chosen) ==
    IF i = target_count THEN chosen
    ELSE
    LET n        == Len(sorted_stations)
        min_dist == sorted_stations[1].distance_km
        max_dist == sorted_stations[n].distance_km
        Taken(j) == \E c \in 1..Len(chosen) : chosen[c] = j
        \* bin_start <= distance_km <= bin_end
        InBin(j) ==
            LET d == target_count * sorted_stations[j].distance_km
                lo == target_count * min_dist + i * (max_dist - min_dist)
            IN  lo <= d /\ d <= lo + (max_dist - min_dist)
        \* abs(distance_km - bin_center), times 2 * target_count
        Off(j) ==
            LET x == 2 * target_count * sorted_stations[j].distance_km
                     - 2 * target_count * min_dist
                     - (2 * i + 1) * (max_dist - min_dist)
            IN  IF x < 0 THEN 0 - x ELSE x
        available == {j \in 1..n : ~Taken(j) /\ InBin(j)}
    IN  IF available = {}
        THEN FastPick(sorted_stations, target_count, i + 1, chosen)
        ELSE LET best == CHOOSE j \in available : \A k \in available :
                             Off(j) < Off(k) \/ (Off(j) = Off(k) /\ j <= k)
             IN  FastPick(sorted_stations, target_count, i + 1,
                          Append(chosen, best))

\* lines 530-587: the binning method
SelectBins(stations, target_count) ==
    LET unique_stations == UniqueStations(stations)
        sorted_stations ==
            SortedBy(unique_stations,
                     [i \in 1..Len(unique_stations) |->
                         << unique_stations[i].distance_km >>])
        chosen == FastPick(sorted_stations, target_count, 0, << >>)
        rest   == SelectSeq([j \in 1..Len(sorted_stations) |-> j],
                            LAMBDA j : \A c \in 1..Len(chosen) : chosen[c] # j)
        filled == chosen \o Take(rest, target_count - Len(chosen))
    IN  IF Len(unique_stations) <= target_count
        THEN unique_stations
        ELSE Take([k \in 1..Len(filled) |-> sorted_stations[filled[k]]],
                  target_count)

_select_distributed_stations(stations, target_count) ==
    IF Len(stations) <= target_count THEN stations
    ELSE IF Len(stations) > FastThreshold
    THEN SelectBins(stations, target_count)
    ELSE SelectBuckets(stations, target_count)

---------------------------------------------------------------------------
(* Specification of _select_distributed_stations calls *)

\* most stations of an enumerated candidate pool
MaxPool == 5

\* most target_stations of a search; the de-clustering step is called with
\* 2 * target_stations bins
MaxTarget == 2

\* the key search_stations sorts its candidates on (lines 327-332)
CandidateKey(st) ==
    << st.network_priority, st.channel_priority, 0 - st.operational_years,
       st.distance_km >>

PoolDistances == { (1000 + x) * KM : x \in {0, 40, 120, 240, 360, 480} }

PoolStation(code, network, distance_km) ==
    StationInfo(network, ToString(code), distance_km,
                TravelTimeMs("P", distance_km), TravelTimeMs("S", distance_km),
                100, 1, 10)

\* the (network, distance) pairs of a pool, in the order of the key
PoolAlphabet ==
    LET ds == SortedBy([i \in 1..Cardinality(PoolDistances) |->
                           CHOOSE d \in PoolDistances :
                               Cardinality({e \in PoolDistances : e < d}) = i - 1],
                       [i \in 1..Cardinality(PoolDistances) |-> << i >>])
    IN  [i \in 1..Len(ds) |-> << "II", ds[i] >>] \o
        [i \in 1..Len(ds) |-> << "XX", ds[i] >>]

\* the non-decreasing sequences of n indices lo..hi
RECURSIVE NonDecreasing(_, _, _)
NonDecreasing(n, lo, hi) ==
    IF n = 0 THEN { << >> }
    ELSE UNION { { << x >> \o t : t \in NonDecreasing(n - 1, x, hi) }
                 : x \in lo..hi }

\* the candidate pools search_stations can pass: sorted on its key
SmallPools ==
    UNION { { [i \in 1..n |-> PoolAlphabet[idx[i]]]
              : idx \in NonDecreasing(n, 1, Len(PoolAlphabet)) }
            : n \in 1..MaxPool }

\* pools above FastThreshold: station i lies step * (i mod period) beyond
\* 1000 km, except the last station, which lies at 1480 km
LargePool(period, step) ==
    [i \in 1..(FastThreshold + 1) |->
        PoolStation(i, "IU",
                    IF i = FastThreshold + 1 THEN 1480 * KM
                    ELSE (1000 + step * (i % period)) * KM)]

LargePools == { LargePool(13, 40), LargePool(2, 40) }

\* a pool in which the catalogue lists stations more than once: entry i is
\* the record of station codes[i], 40 km further out per code
RepeatedPool(codes) ==
    [i \in 1..Len(codes) |->
        PoolStation(codes[i], "II", (1000 + 40 * codes[i]) * KM)]

\* pools with repeated records, below and above FastThreshold
RepeatedPools ==
    UNION { { RepeatedPool(codes) : codes \in NonDecreasing(n, 1, 3) }
            : n \in 1..MaxPool }
    \cup { RepeatedPool([i \in 1..(FastThreshold + 1) |-> 1 + (i % 3)]) }

CallSelect ==
    /\ sel.pc = "idle"
    /\ \/ \E pool \in SmallPools, t \in 1..MaxTarget :
            LET stations == [i \in 1..Len(pool) |->
                                PoolStation(i, pool[i][1], pool[i][2])]
            IN  sel' = [pc |-> "returned", stations |-> stations,
                        target_count |-> 2 * t,
                        result |-> _select_distributed_stations(stations, 2 * t)]
       \/ \E stations \in LargePools, t \in 1..MaxTarget :
            sel' = [pc |-> "returned", stations |-> stations,
                    target_count |-> 2 * t,
                    result |-> _select_distributed_stations(stations, 2 * t)]
       \/ \E stations \in RepeatedPools, t \in 1..MaxTarget :
            sel' = [pc |-> "returned", stations |-> stations,
                    target_count |-> 2 * t,
                    result |-> _select_distributed_stations(stations, 2 * t)]
    /\ UNCHANGED << pk, spk, wf, heap, flt, ms, val, futures, srch, inventory_cache >>

SpecSelect == Init /\ [][CallSelect]_vars

---------------------------------------------------------------------------
(* Claims about _select_distributed_stations *)

SelReturned == sel.pc = "returned"

Distances(stations) == { stations[k].distance_km : k \in 1..Len(stations) }

Smallest(S) == CHOOSE x \in S : \A y \in S : x <= y

Largest(S) == CHOOSE x \in S : \A y \in S : x >= y

\* distance d lies in bin i (0, 1, ...) of the n equal-width bins that
\* divide [lo, hi], both edges of a bin included
InClosedBin(d, i, n, lo, hi) ==
    n * lo + i * (hi - lo) <= n * d /\ n * d <= n * lo + (i + 1) * (hi - lo)

\* the bins of the pool's distance range that hold a station of list
BinsHolding(list) ==
    LET lo == Smallest(Distances(sel.stations))
        hi == Largest(Distances(sel.stations))
    IN  { i \in 0..(sel.target_count - 1) :
            \E d \in Distances(list) :
                InClosedBin(d, i, sel.target_count, lo, hi) }

\* the candidates span the range: there are at least as many as bins, and
\* every bin of their distance range holds one
CandidatesSpanRange ==
    /\ Len(sel.stations) >= sel.target_count
    /\ Largest(Distances(sel.stations)) > Smallest(Distances(sel.stations))
    /\ BinsHolding(sel.stations) = 0..(sel.target_count - 1)

\* C6: given at least 2 x target_count candidates whose distances span the
\* range, the stations the de-clustering step returns lie in bins covering
\* at least 80% of the candidates' distance range, and not all of them lie
\* within the nearest 10% of that range.
C6_DeclusteringCoverage ==
    (SelReturned /\ CandidatesSpanRange)
    => /\ 5 * Cardinality(BinsHolding(sel.result)) >= 4 * sel.target_count
       /\ \E d \in Distances(sel.result) :
              10 * (d - Smallest(Distances(sel.stations)))
                  > Largest(Distances(sel.stations))
                    - Smallest(Distances(sel.stations))

---------------------------------------------------------------------------
(* data_manager.py: _validate_stations_parallel *)

\* ThreadPoolExecutor(max_workers=10)
max_workers == 10

\* the channel patterns a probe asks for, in this order
ProbePatterns == << "HH?", "BH?" >>

\* a probe that leaves the station as it is when no pattern gave data
validate_single_NoMark(station, holds) ==
    LET found == SelectSeq(ProbePatterns, LAMBDA c : c \in holds)
    IN  IF found # << >>
        THEN [station EXCEPT !.data_verified = "True",
                             !.verified_channels = found[1]]
        ELSE station

\* lines 641-676: validate_single on a station for which the data centre
\* answers the patterns in holds with a non-empty stream, and every other
\* pattern with an exception or an empty stream
validate_single(station, holds) ==
    LET found == SelectSeq(ProbePatterns, LAMBDA c : c \in holds)
    IN  IF found # << >>
        THEN [station EXCEPT !.data_verified = "True",
                             !.verified_channels = found[1]]
        ELSE [station EXCEPT !.data_verified = "False"]

\* the key of the final sort: (not x.get('data_verified', False), distance_km)
ValidatedKey(station) ==
    << IF station.data_verified = "True" THEN 0 ELSE 1, station.distance_km >>

\* lines 636-638 and 679-681: the frame after every probe was submitted.
\* validated holds indices into stations: the dicts it refers to are the
\* ones the probes write to.
SubmitProbes(stations, target_count, holds) ==
    [pc |-> IF stations = << >> THEN "shutdown" ELSE "collecting",
     stations |-> stations, target_count |-> target_count, holds |-> holds,
     validated |-> << >>, verified_count |-> 0, result |-> << >>]

\* the executor runs the probes in the order they were submitted, at most
\* max_workers at a time: probe i is in a worker when fewer than max_workers
\* of the probes before it are unfinished
Started(i) ==
    Cardinality({ j \in 1..(i - 1) : futures[j] = "pending" }) < max_workers

\* most probes of one call whose completions are explored in every order;
\* a call with more probes is explored with one probe finishing at a time,
\* each collected before the next finishes
MaxInterleaved == 4

Scheduled(i) ==
    /\ Started(i)
    /\ Len(futures) > MaxInterleaved =>
          /\ \A j \in 1..(i - 1) : futures[j] # "pending"
          /\ val.pc = "collecting" =>
                \A j \in 1..Len(futures) : futures[j] # "finished"

\* a worker thread returns from validate_single(stations[i])
ProbeFinish(i) ==
    /\ val.pc \in {"collecting", "shutdown"}
    /\ futures[i] = "pending"
    /\ Scheduled(i)
    /\ futures' = [futures EXCEPT ![i] = "finished"]
    /\ val' = [val EXCEPT !.stations[i] = validate_single(@, val.holds[i])]
    /\ UNCHANGED << pk, spk, wf, heap, flt, ms, sel, srch, inventory_cache >>

\* lines 683-703: as_completed hands the finished future i to the loop body
Collect(i) ==
    /\ val.pc = "collecting"
    /\ futures[i] = "finished"
    /\ IF val.verified_count >= val.target_count * 2
       THEN \* break: leave the with block
            /\ val' = [val EXCEPT !.pc = "shutdown"]
            /\ UNCHANGED futures
       ELSE /\ futures' = [futures EXCEPT ![i] = "yielded"]
            /\ val' = [val EXCEPT
                 !.validated = Append(@, i),
                 !.verified_count =
                     IF val.stations[i].data_verified = "True"
                     THEN @ + 1 ELSE @,
                 \* as_completed is exhausted after the last future
                 !.pc = IF \A j \in 1..Len(futures) :
                               j # i => futures[j] = "yielded"
                        THEN "shutdown" ELSE "collecting"]
    /\ UNCHANGED << pk, spk, wf, heap, flt, ms, sel, srch, inventory_cache >>

\* lines 679 and 705-708: the with block ends with executor.shutdown(wait=True),
\* which returns when every submitted probe has run; then the sort
ValidateReturn ==
    /\ val.pc = "shutdown"
    /\ \A j \in 1..Len(futures) : futures[j] # "pending"
    /\ LET validated ==
               SortedBy(val.validated,
                        [k \in 1..Len(val.validated) |->
                            ValidatedKey(val.stations[val.validated[k]])])
       IN  val' = [val EXCEPT
                !.pc = "returned",
                !.validated = validated,
                !.result = [k \in 1..Len(validated) |->
                               val.stations[validated[k]]]]
    /\ UNCHANGED << pk, spk, wf, heap, flt, ms, sel, futures, srch, inventory_cache >>

---------------------------------------------------------------------------
(* Specification of _validate_stations_parallel calls *)

\* most stations handed to one call
MaxProbes == 3

\* what the data centre may hold for a station
HoldSets == { {"HH?"}, {"BH?"}, {"SH?"} }

\* the stations of a call: unprobed, at distinct distances, nearest first
\* or farthest first
ProbedStations(n, nearest_first) ==
    [i \in 1..n |->
        PoolStation(i, "II",
                    (1000 + 100 * (IF nearest_first THEN i ELSE n + 1 - i)) * KM)]

CallValidate ==
    /\ val.pc = "idle"
    /\ \E n \in 0..MaxProbes, target_count \in 1..MaxTarget,
          nearest_first \in BOOLEAN :
        \E holds \in [1..n -> HoldSets] :
            /\ val' = SubmitProbes(ProbedStations(n, nearest_first),
                                   target_count, holds)
            /\ futures' = [i \in 1..n |-> "pending"]
    /\ UNCHANGED << pk, spk, wf, heap, flt, ms, sel, srch, inventory_cache >>

NextValidate ==
    \/ CallValidate
    \/ \E i \in 1..Len(futures) : ProbeFinish(i)
    \/ \E i \in 1..Len(futures) : Collect(i)
    \/ ValidateReturn

SpecValidate == Init /\ [][NextValidate]_vars

---------------------------------------------------------------------------
(* Claims about _validate_stations_parallel *)

\* a step of the thread that called _validate_stations_parallel
MainThreadStep ==
    \/ \E i \in 1..Len(futures) : Collect(i)
    \/ ValidateReturn

ValidateRunning == val.pc \in {"collecting", "shutdown"}

\* C4: once 2 x target_count results were consumed as verified, the call
\* goes on to return without any outstanding probe finishing: its thread
\* always has a step to take.
C4_EarlyStopReturns ==
    (ValidateRunning /\ val.verified_count >= 2 * val.target_count)
    => ENABLED MainThreadStep

---------------------------------------------------------------------------
(* data_manager.py: the thresholds of search_stations *)

\* the adaptive candidate count changes above this many stations (line 335)
ManyStations == 1000

\* every selected station is probed up to this many (line 351)
ValidateAllLimit == 20

\* the most stations probed of a larger selection (line 361)
QuickValidateLimit == 15

\* an inventory is cached for searches up to this radius (line 304)
CacheRadiusKm == 3000

---------------------------------------------------------------------------
(* data_manager.py: what search_stations finds around it *)

Min(a, b) == IF a < b THEN a ELSE b

\* an earthquake dict: coordinates in thousandths of a degree; time is the
\* year of the origin time, None when the dict has no time, Garbled when
\* the time is a string UTCDateTime cannot parse
Earthquake(latitude, longitude, time) ==
    [latitude |-> latitude, longitude |-> longitude, time |-> time]

\* a time string UTCDateTime cannot parse
Garbled == 0 - 2

\* lines 48-70: None for None, an exception for what UTCDateTime refuses
ensure_utc_datetime(time_obj) ==
    IF time_obj = Garbled THEN [kind |-> "raised", time |-> None]
    ELSE [kind |-> "value", time |-> time_obj]

\* f"{x:.2f}" of a coordinate, in hundredths of a degree
Format2f(x) == IF x >= 0 THEN RoundDiv(x, 10) ELSE 0 - RoundDiv(0 - x, 10)

\* line 285
CacheKey(earthquake, min_distance_km, max_distance_km) ==
    << Format2f(earthquake.latitude), Format2f(earthquake.longitude),
       min_distance_km, max_distance_km >>

\* the part of the world an epicentre lies in
RegionOf(earthquake) ==
    LET at == << Format2f(earthquake.latitude),
                 Format2f(earthquake.longitude) >>
    IN  CASE at = << 3500, 2500 >>    -> "Crete"
          [] at = << 4000, 3000 >>    -> "Turkey"
          [] at = << 3800, 14200 >>   -> "Japan"
          [] OTHER                    -> "Tonga"

\* a station of the catalogue with what the world holds for it: its
\* great-circle distance (what the catalogue's radius search measures), its
\* geodesic distance (gps2dist_azimuth), what get_travel_times does for it,
\* and the channel patterns the data centre has waveforms for
Site(network, code, channels, start_year, spherical, geodesic, taup, holds) ==
    [network |-> network, code |-> code, channels |-> channels,
     start_year |-> start_year, spherical |-> spherical,
     geodesic |-> geodesic, taup |-> taup, holds |-> holds]

Channels(band, rate) ==
    << Channel(band, "H", "Z", rate), Channel(band, "H", "N", rate),
       Channel(band, "H", "E", rate) >>

\* stations of the dense region
DenseCount == 21

\* the stations of the dense region probed before the others in a large
\* search: GSN stations, the farthest of them without data
DenseGSN == QuickValidateLimit

DenseSite(i) ==
    IF i <= DenseGSN
    THEN Site("IU", ToString(i), Channels("H", 100), 2000,
              (2000 + 60 * i) * KM, (2000 + 60 * i) * KM, "both",
              IF i = DenseGSN THEN {} ELSE {"HH?"})
    ELSE Site("XX", ToString(i), Channels("H", 100), 2000,
              (1100 + 10 * i) * KM, (1100 + 10 * i) * KM, "both", {"HH?"})

Sites(region) ==
    CASE region = "Crete" ->
           << Site("II", "U1", Channels("H", 100) \o Channels("B", 40), 1995,
                   1500 * KM, 1500 * KM, "both", {"HH?", "BH?"}),
              Site("IU", "U2", Channels("B", 20), 2000,
                   2500 * KM, 2500 * KM, "both", {"BH?"}),
              Site("XX", "U3", Channels("S", 50), 2015,
                   1200 * KM, 1200 * KM, "raise", {"SH?"}),
              Site("GE", "U4", Channels("H", 100), 2000,
                   4000 * KM, 4000 * KM, "noS", {}) >>
      [] region = "Turkey" ->
           \* inside the radius of a 3000 km search, beyond 3000 km on the
           \* ellipsoid
           << Site("GE", "F1", Channels("H", 100), 2000,
                   2995 * KM, 3005 * KM, "both", {"HH?"}) >>
      [] region = "Japan" -> [i \in 1..DenseCount |-> DenseSite(i)]
      [] OTHER -> << >>

\* client.get_stations (lines 290-301): the stations operating at the origin
\* time inside the radius, << >> standing for the exception the client
\* raises when the catalogue has none
Catalogue(earthquake, min_distance_km, max_distance_km) ==
    SelectSeq(Sites(RegionOf(earthquake)),
              LAMBDA site : /\ site.start_year <= earthquake.time
                            /\ min_distance_km <= site.spherical
                            /\ site.spherical <= max_distance_km)

\* what the data centre holds for a station in the 30 s after the origin
\* time
HoldsAt(earthquake, station) ==
    LET sites == Sites(RegionOf(earthquake))
        site  == sites[CHOOSE i \in 1..Len(sites) : sites[i].code = station.station]
    IN  IF site.start_year <= earthquake.time THEN site.holds ELSE {}

\* lines 418-517
RECURSIVE _process_inventory_to_stations(_, _, _, _)
_process_inventory_to_stations(inventory, earthquake, min_distance_km, max_distance_km) ==
    IF inventory = << >> THEN << >>
    ELSE ProcessStation(Head(inventory), Head(inventory).geodesic,
                        Head(inventory).taup, earthquake.time,
                        min_distance_km, max_distance_km)
         \o _process_inventory_to_stations(Tail(inventory), earthquake,
                                           min_distance_km, max_distance_km)

---------------------------------------------------------------------------
(* data_manager.py: _fallback_station_list_optimized *)

\* lines 719-727
analysis_ready_stations ==
    << [net |-> "IU", sta |-> "KEV"], [net |-> "II", sta |-> "BFO"],
       [net |-> "GE", sta |-> "STU"], [net |-> "DK", sta |-> "BSD"],
       [net |-> "DK", sta |-> "COP"], [net |-> "NS", sta |-> "BSEG"],
       [net |-> "UP", sta |-> "UDD"] >>

\* gps2dist_azimuth from an epicentre of the region to the seven stations,
\* in their order, in tenths of a kilometre
FallbackDistances(region) ==
    CASE region = "Crete"  ->
           << 38671, 20197, 20061, 23668, 24916, 33250, 32922 >>
      [] region = "Turkey" ->
           << 33138, 19514, 19105, 20167, 21684, 29745, 27865 >>
      [] region = "Japan"  ->
           << 69445, 93813, 93048, 85082, 85587, 82208, 75154 >>
      [] OTHER ->
           << 142868, 168508, 167942, 160231, 159993, 153226, 149243 >>

\* lines 747-760
FallbackStation(sta_data, distance_km) ==
    [network |-> sta_data.net, station |-> sta_data.sta,
     distance_km |-> distance_km,
     p_arrival |-> ConstantVelocityMs(distance_km, 80),
     s_arrival |-> ConstantVelocityMs(distance_km, 45),
     surface_arrival |-> ConstantVelocityMs(distance_km, 35),
     data_source |-> "ANALYSIS_READY_FALLBACK", data_verified |-> "None"]

_fallback_station_list_optimized(earthquake, min_distance_km, max_distance_km, target_stations) ==
    LET distances == FallbackDistances(RegionOf(earthquake))
        n         == Len(analysis_ready_stations)
        inside    == SelectSeq([i \in 1..n |-> i],
                               LAMBDA i : /\ min_distance_km <= distances[i]
                                          /\ distances[i] <= max_distance_km)
        stations  == [k \in 1..Len(inside) |->
                         FallbackStation(analysis_ready_stations[inside[k]],
                                         distances[inside[k]])]
    IN  Take(SortedBy(stations,
                      [k \in 1..Len(stations) |-> << stations[k].distance_km >>]),
             target_stations)

---------------------------------------------------------------------------
(* data_manager.py: search_stations *)

\* what search_stations hands back: a list, or an exception it let escape
Returned(stations) == [kind |-> "list", stations |-> stations]

Raised == [kind |-> "raised", stations |-> << >>]

\* the frame of a search that ended before any station was selected
SearchEnded(args, catalog, result) ==
    [pc |-> "returned", args |-> args, catalog |-> catalog,
     all_stations |-> 0, selected_stations |-> << >>,
     quick_validate_count |-> 0, result |-> result]

\* the calls of search_stations that are explored

\* a target_stations large enough for the sampled validation
LargeTarget == 16

Earthquakes ==
    { Earthquake(35000, 25000, 2005), Earthquake(35004, 25001, 2020),
      Earthquake(40000, 30000, 2020), Earthquake(38000, 142000, 2020),
      Earthquake(0 - 20000, 0 - 175000, 2020),
      Earthquake(35000, 25000, None), Earthquake(35000, 25000, Garbled) }

Windows == { << 1000 * KM, 3000 * KM >>, << 1000 * KM, 5000 * KM >> }

SearchTargets == {1, 2, LargeTarget}

Placeholders == {"None", "placeholder"}

\* line 285-305: the inventory the search works on and how it was obtained
\* ("cached", "ok" or "raised"); outage: the catalogue query fails
GetInventory(earthquake, min_distance_km, max_distance_km, outage) ==
    LET cache_key == CacheKey(earthquake, min_distance_km, max_distance_km)
        hits == { e \in inventory_cache : e.key = cache_key }
        found == Catalogue(earthquake, min_distance_km, max_distance_km)
    IN  IF hits # {}
        THEN [catalog |-> "cached",
              inventory |-> (CHOOSE e \in hits : TRUE).inventory,
              cache |-> inventory_cache]
        ELSE IF outage \/ found = << >>
        THEN [catalog |-> "raised", inventory |-> << >>,
              cache |-> inventory_cache]
        ELSE [catalog |-> "ok", inventory |-> found,
              cache |-> IF max_distance_km <= CacheRadiusKm * KM
                        THEN inventory_cache \cup
                                 { [key |-> cache_key, inventory |-> found] }
                        ELSE inventory_cache]

\* lines 327-332
SortCandidates(all_stations) ==
    SortedBy(all_stations,
             [i \in 1..Len(all_stations) |-> CandidateKey(all_stations[i])])

\* lines 335-343
Candidates(sorted_stations, target_stations) ==
    Take(sorted_stations,
         IF Len(sorted_stations) > ManyStations
         THEN Min(Len(sorted_stations), target_stations * 3)
         ELSE Min(Len(sorted_stations), target_stations * 5))

\* lines 351-362: how many of the selected stations are probed
QuickValidateCount(selected_stations, target_stations) ==
    IF Len(selected_stations) <= ValidateAllLimit
    THEN Len(selected_stations)
    ELSE Min(target_stations * 3, QuickValidateLimit)

\* lines 262-367: from the call to the submission of the probes, or to the
\* return when the search ends earlier
SearchStations ==
    /\ srch.pc = "idle"
    /\ \E earthquake \in Earthquakes, window \in Windows,
          target_stations \in SearchTargets,
          progress_placeholder \in Placeholders, outage \in BOOLEAN :
        LET min_distance_km == window[1]
            max_distance_km == window[2]
            args == [earthquake |-> earthquake,
                     min_distance_km |-> min_distance_km,
                     max_distance_km |-> max_distance_km,
                     target_stations |-> target_stations,
                     progress_placeholder |-> progress_placeholder]
            eq_time == ensure_utc_datetime(earthquake.time)
        IN  IF eq_time.kind = "raised"
            THEN \* line 266 is outside the try block
                 /\ srch' = SearchEnded(args, "not asked", Raised)
                 /\ UNCHANGED << val, futures, inventory_cache >>
            ELSE IF eq_time.time = None
            THEN /\ srch' = SearchEnded(args, "not asked", Returned(<< >>))
                 /\ UNCHANGED << val, futures, inventory_cache >>
            ELSE
            \E got \in { GetInventory(earthquake, min_distance_km,
                                      max_distance_km, outage) } :
            \E all_stations \in
                  { _process_inventory_to_stations(
                        got.inventory, earthquake, min_distance_km,
                        max_distance_km) } :
            \E sorted_stations \in { SortCandidates(all_stations) } :
            \E selected_stations \in
                  { _select_distributed_stations(
                        Candidates(sorted_stations, target_stations),
                        target_stations * 2) } :
            \E quick_validate_count \in
                  { QuickValidateCount(selected_stations, target_stations) } :
            \E quick_stations \in
                  { Take(selected_stations, quick_validate_count) } :
            IF got.catalog = "raised"
            THEN \* lines 396-401
                 /\ srch' = SearchEnded(args, "raised", Returned(<< >>))
                 /\ UNCHANGED << val, futures, inventory_cache >>
            ELSE IF all_stations = << >>
            THEN /\ srch' = SearchEnded(args, got.catalog,
                     IF progress_placeholder = "None"
                     THEN \* line 317 raises AttributeError: lines 396-401
                          Returned(<< >>)
                     ELSE Returned(_fallback_station_list_optimized(
                              earthquake, min_distance_km, max_distance_km,
                              target_stations)))
                 /\ inventory_cache' = got.cache
                 /\ UNCHANGED << val, futures >>
            ELSE /\ srch' = [pc |-> "validating", args |-> args,
                             catalog |-> got.catalog,
                             all_stations |-> Len(all_stations),
                             selected_stations |-> selected_stations,
                             quick_validate_count |-> quick_validate_count,
                             result |-> Returned(<< >>)]
                 /\ val' = SubmitProbes(
                               quick_stations, target_stations,
                               [i \in 1..quick_validate_count |->
                                   HoldsAt(earthquake, quick_stations[i])])
                 /\ futures' = [i \in 1..quick_validate_count |-> "pending"]
                 /\ inventory_cache' = got.cache
    /\ UNCHANGED << pk, spk, wf, heap, flt, ms, sel >>

\* lines 368-394: after the probes' results came back
SearchFinish ==
    /\ srch.pc = "validating"
    /\ val.pc = "returned"
    /\ LET remaining_stations ==
               Drop(srch.selected_stations, srch.quick_validate_count)
           validated_stations ==
               IF Len(srch.selected_stations) <= ValidateAllLimit
               THEN val.result
               ELSE val.result \o
                    [k \in 1..Len(remaining_stations) |->
                        [remaining_stations[k] EXCEPT !.data_verified = "None"]]
       IN  srch' = [srch EXCEPT
                !.pc = "returned",
                !.result = Returned(Take(validated_stations,
                                         srch.args.target_stations))]
    /\ val' = IdleCall
    /\ futures' = << >>
    /\ UNCHANGED << pk, spk, wf, heap, flt, ms, sel, inventory_cache >>

\* GEOSeis2_0.py, lines 1225-1232: the page takes what the search handed
\* back and is drawn again, ready for another search
TakeStations ==
    /\ srch.pc = "returned"
    /\ srch' = IdleCall
    /\ UNCHANGED << pk, spk, wf, heap, flt, ms, sel, val, futures, inventory_cache >>

---------------------------------------------------------------------------
(* Specification of station discovery *)

Next ==
    \/ SearchStations
    \/ \E i \in 1..Len(futures) : ProbeFinish(i)
    \/ \E i \in 1..Len(futures) : Collect(i)
    \/ ValidateReturn
    \/ SearchFinish
    \/ TakeStations

Spec == Init /\ [][Next]_vars

---------------------------------------------------------------------------
(* Claims about search_stations *)

SearchReturned == srch.pc = "returned"

\* the static list filtered to the window of the search that returned
FallbackOfSearch ==
    _fallback_station_list_optimized(
        srch.args.earthquake, srch.args.min_distance_km,
        srch.args.max_distance_km, srch.args.target_stations)

\* the search handed back exactly the stations of list
ReturnsList(list) ==
    /\ srch.result.kind = "list"
    /\ Len(srch.result.stations) = Len(list)
    /\ \A k \in 1..Len(list) :
          /\ srch.result.stations[k].data_source = list[k].data_source
          /\ srch.result.stations[k].station = list[k].station
          /\ srch.result.stations[k].distance_km = list[k].distance_km

\* C1: a search whose catalogue query raised returns the static list
\* filtered to its distance window.
C1_CatalogFailureFallsBack ==
    (SearchReturned /\ srch.catalog = "raised") => ReturnsList(FallbackOfSearch)

\* C2: a search whose catalogue query gave an inventory with no qualifying
\* station in the window returns the static list filtered to the window,
\* with or without a progress_placeholder; so it returns an empty list only
\* when the static list has no station in the window.
C2_EmptyCatalogFallsBack ==
    (SearchReturned /\ srch.catalog \in {"ok", "cached"}
        /\ srch.all_stations = 0)
    => ReturnsList(FallbackOfSearch)

\* C3: the list search_stations returns has at most target_stations
\* entries, verified stations before all others, and distance_km ascending
\* among the verified and among the others.
C3_FinalOrdering ==
    (SearchReturned /\ srch.result.kind = "list") =>
        LET final_stations == srch.result.stations
            Verified(k) == final_stations[k].data_verified = "True"
        IN  /\ Len(final_stations) <= srch.args.target_stations
            /\ \A j, k \in 1..Len(final_stations) :
                  j < k =>
                     /\ Verified(k) => Verified(j)
                     /\ (Verified(j) <=> Verified(k)) =>
                            final_stations[j].distance_km
                                <= final_stations[k].distance_km

---------------------------------------------------------------------------
(* seismic_processor.py: remove_spikes *)

\* a sample that is not a number
NaN == 0 - 999999

\* self.spike_threshold
spike_threshold == 5

\* window_size of the median filter
window_size == 5

Abs(x) == IF x < 0 THEN 0 - x ELSE x

\* the k-th sample of s in ascending order
KthSmallest(s, k) ==
    CHOOSE v \in { s[i] : i \in 1..Len(s) } :
        /\ Cardinality({ i \in 1..Len(s) : s[i] < v }) < k
        /\ Cardinality({ i \in 1..Len(s) : s[i] <= v }) >= k

\* twice np.median(s) for a non-empty s: the middle sample, or the mean of
\* the two middle samples
Median2(s) ==
    LET n == Len(s)
    IN  IF n % 2 = 1
        THEN 2 * KthSmallest(s, (n + 1) \div 2)
        ELSE KthSmallest(s, n \div 2) + KthSmallest(s, n \div 2 + 1)

\* scipy.signal.medfilt(s, window_size): the median of the window around
\* each sample, the array padded with zeros at both ends
medfilt(s, size) ==
    LET half == size \div 2
        pad(j) == IF j < 1 \/ j > Len(s) THEN 0 ELSE s[j]
        window(i) == [k \in 1..size |-> pad(i - half + k - 1)]
    IN  [i \in 1..Len(s) |-> KthSmallest(window(i), half + 1)]

\* lines 375-400.  With median2 = 2 median and mad4 = 4 mad, the test
\* |x - median| / (1.4826 mad) > threshold is
\* 20000 |2x - median2| > 14826 threshold mad4.  np.median of an empty array
\* or of one holding NaN is NaN, and NaN > 0 is false.
remove_spikes(data, threshold) ==
    IF data = << >> \/ \E i \in 1..Len(data) : data[i] = NaN
    THEN [data |-> data, spike_count |-> 0]
    ELSE
    LET median2 == Median2(data)
        dev2    == [i \in 1..Len(data) |-> Abs(2 * data[i] - median2)]
        mad4    == Median2(dev2)
        spike_indices ==
            { i \in 1..Len(data) :
                20000 * dev2[i] > 14826 * threshold * mad4 }
        median_filtered == medfilt(data, window_size)
    IN  IF mad4 > 0
        THEN [data |-> [i \in 1..Len(data) |->
                           IF i \in spike_indices
                           THEN median_filtered[i] ELSE data[i]],
              spike_count |-> Cardinality(spike_indices)]
        ELSE [data |-> data, spike_count |-> 0]

---------------------------------------------------------------------------
(* Specification of remove_spikes calls *)

\* longest sample sequence handed to remove_spikes
MaxSpikeLen == 5

\* the sample values: a level around 10 and excursions below and above it
SpikeValues == {0 - 50, 10, 11, 12, 90}

RECURSIVE SampleSeqs(_)
SampleSeqs(n) ==
    IF n = 0 THEN { << >> }
    ELSE LET shorter == SampleSeqs(n - 1)
         IN  shorter \cup
             { Append(s, v) : s \in { t \in shorter : Len(t) = n - 1 },
                              v \in SpikeValues }

\* remove_spikes(data), then remove_spikes on the cleaned array it returned
CallRemoveSpikes ==
    /\ spk.pc = "idle"
    /\ \E data \in SampleSeqs(MaxSpikeLen) :
        \E first \in { remove_spikes(data, spike_threshold) } :
            spk' = [pc |-> "returned", data |-> data, first |-> first,
                    second |-> remove_spikes(first.data, spike_threshold)]
    /\ UNCHANGED << pk, flt, ms, sel, val, futures, srch, inventory_cache,
                    wf, heap >>

SpecSpikes == Init /\ [][CallRemoveSpikes]_vars

---------------------------------------------------------------------------
(* Claims about remove_spikes *)

SpkReturned == spk.pc = "returned"

\* C11: remove_spikes applied to the cleaned sequence a first call returned
\* reports no spike and returns that sequence unchanged.
C11_SpikeIdempotence ==
    SpkReturned =>
        /\ spk.second.spike_count = 0
        /\ spk.second.data = spk.first.data

---------------------------------------------------------------------------
(* seismic_processor.py: process_waveform_with_filtering *)

\* An array is a cell of heap, named by its index.  A cell holds the samples
\* and the kind of array: "numeric", "text" (an array numpy cannot compute
\* with) or "filtered" (the output of filtfilt, whose sample values are not
\* modelled: the cell keeps zeros).
Cell(values, kind) == [values |-> values, kind |-> kind]

\* no array: the key is missing or holds None
NoArray == 0

Alloc(h, cell) == [heap |-> Append(h, cell), id |-> Len(h) + 1]

\* np.array(x) with its default copy=True: a new array with x's samples
NpArray_NoCopy(h, id) == [heap |-> h, id |-> id]

NpArray(h, id) == Alloc(h, h[id])

\* x.copy()
Copy(h, id) == Alloc(h, h[id])

components == << "north", "east", "vertical" >>

ComponentNames == {"north", "east", "vertical"}

\* the filter_type argument: the name of a band, or a custom tuple
\* (low_freq, high_freq) held under the name "custom"
Named(name) == [name |-> name, low_freq |-> None, high_freq |-> None]

Custom(low_freq, high_freq) ==
    [name |-> "custom", low_freq |-> low_freq, high_freq |-> high_freq]

\* lines 247-265 with self.filter_bands (lines 77-83): << low_freq,
\* high_freq >> in mHz; a name that is no band is treated as broadband
FilterBand(filter_type) ==
    CASE filter_type.name = "custom" ->
             << filter_type.low_freq, filter_type.high_freq >>
      [] filter_type.name = "p_waves"     -> << Hz, 10 * Hz >>
      [] filter_type.name = "s_waves"     -> << Hz \div 2, 5 * Hz >>
      [] filter_type.name = "surface"     -> << 20, Hz \div 2 >>
      [] filter_type.name = "long_period" -> << 5, Hz \div 10 >>
      [] OTHER -> << None, None >>

\* has_highres (line 238)
HasHighres(waveform_data) ==
    \E c \in ComponentNames : waveform_data.highres[c] # NoArray

\* lines 285-300: the array of a component, high-resolution first
FindData(waveform_data, component) ==
    IF HasHighres(waveform_data) /\ waveform_data.highres[component] # NoArray
    THEN waveform_data.highres[component]
    ELSE waveform_data.displacement_data[component]

\* what the filter model needs to know of a numeric array
Describe(cell) ==
    Samples(Len(cell.values),
            Cardinality({ i \in 1..Len(cell.values) : cell.values[i] = NaN }),
            "raw")

\* lines 320-322: remove_spikes writes into a copy of data; on an array
\* that is not numeric np.median raises
SpikeStep(h, id) ==
    IF h[id].kind = "text"
    THEN [heap |-> h, id |-> id, spike_count |-> None, raised |-> TRUE]
    ELSE LET cleaned == Copy(h, id)
             r == remove_spikes(h[id].values, spike_threshold)
         IN  [heap |-> [cleaned.heap EXCEPT ![cleaned.id].values = r.data],
              id |-> cleaned.id, spike_count |-> r.spike_count,
              raised |-> FALSE]

\* lines 325-336: the broadband copy, or apply_bandpass_filter, which works
\* on its own np.array(data) and hands back that array, the array without
\* its non-finite samples, or the filtered one.  On an array that is not
\* numeric np.isnan raises inside the filter's try block.
FilterStep(h, id, sampling_rate, band, lib) ==
    IF band = << None, None >>
    THEN LET c == Copy(h, id)
         IN  [heap |-> c.heap, id |-> c.id, success |-> TRUE,
              reason |-> "none"]
    ELSE
    LET inner == NpArray(h, id)
        cell  == h[id]
    IN  IF cell.kind = "text"
        THEN [heap |-> inner.heap, id |-> inner.id, success |-> FALSE,
              reason |-> IF cell.values = << >>
                         THEN "empty_data" ELSE "unexpected_error"]
        ELSE
        LET r == apply_bandpass_filter(Describe(cell), sampling_rate,
                                       band[1], band[2], filter_order, lib)
            out == IF r.data.kind = "raw"
                   THEN inner
                   ELSE Alloc(inner.heap,
                          IF r.data.kind = "cleaned"
                          THEN Cell(SelectSeq(cell.values,
                                              LAMBDA v : v # NaN),
                                    "numeric")
                          ELSE Cell([i \in 1..r.data.len |-> 0],
                                    "filtered"))
        IN  [heap |-> out.heap, id |-> out.id,
             success |-> r.status.success, reason |-> r.status.reason]

\* lines 353-362: np.std and np.max(np.abs(...)) of the filtered array;
\* np.max of an empty array raises ValueError, np.std of text TypeError
NoiseRaises(cell) == cell.values = << >> \/ cell.kind = "text"

\* the empty result of lines 227-235, a missing entry held as NoArray,
\* None or "unset"
EmptyProcessed ==
    [original_data |-> [c \in ComponentNames |-> NoArray],
     filtered_data |-> [c \in ComponentNames |-> NoArray],
     spike_info    |-> [c \in ComponentNames |-> None],
     noise_info    |-> {},
     filter_status |-> [c \in ComponentNames |-> "unset"]]

\* lines 364-371: the handler of one component's try block
ExceptClause_NoStatus(h, processed_data, component) ==
    [heap |-> h, processed_data |-> processed_data]

ExceptClause(h, processed_data, component) ==
    LET original == processed_data.original_data[component]
        shown    == IF original # NoArray
                    THEN Copy(h, original)
                    ELSE [heap |-> h,
                          id |-> processed_data.filtered_data[component]]
    IN  [heap |-> shown.heap,
         processed_data |->
            [processed_data EXCEPT
                !.filter_status[component] = "error",
                !.filtered_data[component] = shown.id]]

\* lines 282-371: one pass of the loop body
ProcessComponent(h, processed_data, waveform_data, component, band, opts) ==
    LET found == FindData(waveform_data, component)
    IN  IF found = NoArray
        THEN [heap |-> h,
              processed_data |->
                 [processed_data EXCEPT
                     !.filter_status[component] = "no_data"]]
        ELSE
        LET data     == NpArray(h, found)
            original == Copy(data.heap, data.id)
            pd1 == [processed_data EXCEPT
                       !.original_data[component] = original.id]
            spiked == IF opts.remove_spikes
                      THEN SpikeStep(original.heap, data.id)
                      ELSE [heap |-> original.heap, id |-> data.id,
                            spike_count |-> None, raised |-> FALSE]
        IN  IF spiked.raised
            THEN ExceptClause(spiked.heap, pd1, component)
            ELSE
            LET pd2 == [pd1 EXCEPT
                           !.spike_info[component] = spiked.spike_count]
                filtered == FilterStep(spiked.heap, spiked.id,
                                       waveform_data.sampling_rate, band,
                                       opts.lib)
                kept == NpArray(filtered.heap, filtered.id)
                pd3 == [pd2 EXCEPT
                           !.filtered_data[component] = kept.id,
                           !.filter_status[component] =
                               IF filtered.success THEN "success"
                               ELSE filtered.reason]
            IN  IF opts.calculate_noise /\ filtered.success
                THEN IF NoiseRaises(kept.heap[kept.id])
                     THEN ExceptClause(kept.heap, pd3, component)
                     ELSE [heap |-> kept.heap,
                           processed_data |->
                              [pd3 EXCEPT !.noise_info = @ \cup {component}]]
                ELSE [heap |-> kept.heap, processed_data |-> pd3]

---------------------------------------------------------------------------
(* Specification of process_waveform_with_filtering calls *)

\* a recording at a level around 10 with one spike
GoodArray ==
    Cell([i \in 1..MaxSamples |-> IF i = 7 THEN 90 ELSE 10 + (i % 3)],
         "numeric")

\* a recording a quarter of whose samples are not numbers
GappyArray ==
    Cell([i \in 1..MaxSamples |-> IF i % 4 = 0 THEN NaN ELSE 10 + (i % 3)],
         "numeric")

EmptyArray == Cell(<< >>, "numeric")

TextArray == Cell(<< 0, 0, 0 >>, "text")

\* the arrays of the bundles explored, and the cell each one has
BundleHeap == << GoodArray, GappyArray, EmptyArray, TextArray, GoodArray >>

\* the bundles: displacement arrays per component, and the bundle with or
\* without a high-resolution array for north
Bundles ==
    { [displacement_data |->
           [c \in ComponentNames |->
               CASE c = "north" -> n [] c = "east" -> e [] OTHER -> z],
       highres |->
           [c \in ComponentNames |->
               IF c = "north" THEN hi ELSE NoArray],
       sampling_rate |-> sr] :
        n \in {NoArray, 1, 2, 3, 4}, e \in {NoArray, 1, 4}, z \in {1, 3},
        hi \in {NoArray, 5}, sr \in {20 * Hz, 100 * Hz} }

FilterTypes == {Named("broadband"), Named("p_waves"), Custom(5 * Hz, Hz)}

ProcessOptions ==
    [remove_spikes : BOOLEAN, calculate_noise : BOOLEAN,
     lib : [strict : {TRUE}, finite : BOOLEAN]]

\* lines 218-272: the call, up to the loop
CallProcess ==
    /\ wf.pc = "idle"
    /\ \E waveform_data \in Bundles, filter_type \in FilterTypes,
          opts \in ProcessOptions :
        wf' = [pc |-> "loop", next |-> 1,
               waveform_data |-> waveform_data, filter_type |-> filter_type,
               opts |-> opts, processed_data |-> EmptyProcessed]
    /\ heap' = BundleHeap
    /\ UNCHANGED << pk, flt, ms, sel, val, futures, srch, inventory_cache, spk >>

\* lines 282-371: the loop body for the next component
ProcessNext ==
    /\ wf.pc = "loop"
    /\ \E r \in { ProcessComponent(heap, wf.processed_data, wf.waveform_data,
                                   components[wf.next],
                                   FilterBand(wf.filter_type), wf.opts) } :
        /\ heap' = r.heap
        /\ wf' = [wf EXCEPT
                     !.processed_data = r.processed_data,
                     !.next = @ + 1,
                     !.pc = IF wf.next = Len(components)
                            THEN "returned" ELSE "loop"]
    /\ UNCHANGED << pk, flt, ms, sel, val, futures, srch, inventory_cache, spk >>

\* the arrays the result refers to
DerivedArrays ==
    { wf.processed_data.original_data[c] : c \in ComponentNames } \cup
    { wf.processed_data.filtered_data[c] : c \in ComponentNames }

\* the caller writes into an array of the result it was handed
WriteDerived ==
    /\ wf.pc = "returned"
    /\ \E id \in DerivedArrays \ {NoArray} :
        heap' = [heap EXCEPT ![id] = Cell(<< >>, "written")]
    /\ wf' = [wf EXCEPT !.pc = "written"]
    /\ UNCHANGED << pk, flt, ms, sel, val, futures, srch, inventory_cache, spk >>

NextProcess == CallProcess \/ ProcessNext \/ WriteDerived

SpecProcess == Init /\ [][NextProcess]_vars

---------------------------------------------------------------------------
(* Claims about process_waveform_with_filtering *)

WfReturned == wf.pc \in {"returned", "written"}

\* the status one component gets when it is processed on its own
OwnStatus(component) ==
    ProcessComponent(BundleHeap, EmptyProcessed, wf.waveform_data, component,
                     FilterBand(wf.filter_type), wf.opts)
        .processed_data.filter_status[component]

\* C12: after process_waveform_with_filtering each of north, east and
\* vertical has its own entry in filter_status, and the entry is the one the
\* component's own data gives, whatever happened to the other components:
\* a failed filter call or an exception in one of them stops none of the
\* others.
C12_ComponentIsolation ==
    WfReturned =>
        \A c \in ComponentNames :
            /\ wf.processed_data.filter_status[c] # "unset"
            /\ wf.processed_data.filter_status[c] = OwnStatus(c)

\* C12's case: the filter call fails for north, an exception is raised for
\* east, and vertical is filtered
C12_Witness ==
    /\ wf.pc = "returned"
    /\ wf.processed_data.filter_status["north"] = "empty_data"
    /\ wf.processed_data.filter_status["east"] = "error"
    /\ wf.processed_data.filter_status["vertical"] = "success"

\* the arrays of the bundle handed to the call
BundleArrays ==
    ({ wf.waveform_data.displacement_data[c] : c \in ComponentNames } \cup
     { wf.waveform_data.highres[c] : c \in ComponentNames }) \ {NoArray}

\* C13: process_waveform_with_filtering leaves every array of the bundle as
\* it was; the arrays of original_data and filtered_data are new arrays, so
\* that a later write into one of them changes no array of the bundle.
C13_BundleUnchanged ==
    wf.pc # "idle" =>
        /\ \A id \in BundleArrays : heap[id] = BundleHeap[id]
        /\ DerivedArrays \cap BundleArrays = {}

\* C13's case: a call with spike removal, filtering and noise computation
\* replaced a spike of north and filtered it, and the caller then wrote
\* into an array of the result
C13_Witness ==
    /\ wf.pc = "written"
    /\ wf.opts.remove_spikes /\ wf.opts.calculate_noise
    /\ wf.filter_type = Named("p_waves")
    /\ wf.processed_data.spike_info["north"] > 0
    /\ wf.processed_data.filter_status["north"] = "success"
    /\ "north" \in wf.processed_data.noise_info

---------------------------------------------------------------------------
(* Claims about the station records during verification *)

\* C14: while the probes of a call run and when it returns, a step changes
\* nothing of a station record but data_verified, and changes data_verified
\* only from None: no key is added to the record and no other value is
\* modified.
C14_OnlyStatusMutated ==
    [][ (ValidateRunning /\ val'.pc # "idle") =>
            \A i \in 1..Len(val.stations) :
                /\ [val'.stations[i] EXCEPT
                       !.data_verified = val.stations[i].data_verified]
                   = val.stations[i]
                /\ val'.stations[i].data_verified
                       # val.stations[i].data_verified
                   => val.stations[i].data_verified = "None" ]_vars


\* C15: while a call collects results, every probe that has not finished is
\* running in a worker, so that whether it completes depends on its own
\* request alone and never on a stalled probe.
C15_StalledProbesDoNotBlock ==
    val.pc = "collecting" =>
        \A i \in 1..Len(futures) : futures[i] = "pending" => Started(i)

\* C16: a step in which a worker thread finishes its probe writes nothing
\* of the frame that the calling thread reads: neither the counter, nor the
\* results, nor the station records.
C16_WorkersWriteNothingShared ==
    [][ (\E i \in 1..Len(futures) :
            /\ i <= Len(futures')
            /\ futures[i] = "pending" /\ futures'[i] = "finished")
        => val' = val ]_vars

---------------------------------------------------------------------------
(* Further claims about apply_bandpass_filter *)

\* C17: on input holding non-finite samples apply_bandpass_filter fails
\* with invalid_data exactly when more than half of the samples are
\* non-finite; otherwise, exactly half included, it goes on with the finite
\* samples alone.
C17_NonFiniteThreshold ==
    (FltReturned /\ flt.args.data.bad > 0) =>
        /\ flt.result.status.reason = "invalid_data"
              <=> 2 * flt.args.data.bad > flt.args.data.len
        /\ 2 * flt.args.data.bad <= flt.args.data.len
              => /\ flt.result.data.len
                        = flt.args.data.len - flt.args.data.bad
                 /\ flt.result.data.bad = 0

\* C17's case: exactly half of the samples are non-finite, they are dropped
\* and the other half is filtered
C17_Witness ==
    /\ FltReturned
    /\ flt.args.data.len = 2 * flt.args.data.bad
    /\ flt.args.data.bad > 0
    /\ flt.result.status.success
    /\ flt.result.data = Samples(flt.args.data.bad, 0, "filtered")

\* C18: whenever apply_bandpass_filter returns a failure status, the samples
\* it returns are the samples it was given, element for element, also when
\* some of them were non-finite.
C18_FailureReturnsInput ==
    (FltReturned /\ ~flt.result.status.success)
    => /\ flt.result.data = flt.args.data
       /\ flt.result.status.reason # "none"

\* C19: a call with both frequencies given, low > 0 and low >= high, on
\* finite samples, fails with invalid_band, at every sampling rate, high at
\* or above Nyquist included.
C19_InvalidBandReason ==
    (FltReturned /\ ExplicitBand
        /\ flt.args.low_freq >= flt.args.high_freq
        /\ flt.args.data.len > 0 /\ flt.args.data.bad = 0)
    => flt.result.status.reason = "invalid_band"

---------------------------------------------------------------------------
(* Further claims about search_stations *)

\* C20: every station a search returns carries a P and an S arrival: the
\* travel-time model's, or the constant-velocity estimate when the model
\* has none; and its surface arrival is distance_km / 3.5.
C20_ArrivalsDefined ==
    (SearchReturned /\ srch.result.kind = "list") =>
        \A k \in 1..Len(srch.result.stations) :
            LET station == srch.result.stations[k]
            IN  /\ station.p_arrival # None
                /\ station.s_arrival # None
                /\ station.surface_arrival
                       = ConstantVelocityMs(station.distance_km, 35)

---------------------------------------------------------------------------
(* Claims about the magnitude's amplitude, depth term and filtered input *)

\* C21: a magnitude returned by calculate_ms_magnitude uses the amplitude
\* max(vertical peak, horizontal vector peak) and names the vertical
\* component dominant exactly when its peak >= the horizontal peak; its
\* depth correction is -0.0035 x (depth_km - 50) exactly when a depth is
\* given and exceeds 50 km and zero at depth 50, at depth 0 and without a
\* depth, so that the correction never raises the magnitude.
C21_AmplitudeAndDepth ==
    (MsReturned /\ ms.result.kind = "magnitude") =>
        LET amp   == ms.args.amp
            depth == ms.args.earthquake_depth_km
            r     == ms.result
        IN  /\ r.amplitude_um >= amp.vert /\ r.amplitude_um >= amp.horiz
            /\ r.amplitude_um \in {amp.vert, amp.horiz}
            /\ (r.used_component = "vertikal") <=> (amp.vert >= amp.horiz)
            /\ r.used_component \in {"vertikal", "horizontal"}
            /\ (depth # None /\ depth > 50)
                   => r.depth_correction = 0 - 35 * (depth - 50)
            /\ (depth = None \/ depth <= 50) => r.depth_correction = 0
            /\ r.depth_correction <= 0

\* C21's case: equal peaks at a depth of 51 km: the vertical component is
\* named and the correction is -0.0035
C21_Witness ==
    /\ MsReturned
    /\ ms.result.kind = "magnitude"
    /\ ms.args.amp.vert = ms.args.amp.horiz
    /\ ms.result.used_component = "vertikal"
    /\ ms.args.earthquake_depth_km = 51
    /\ ms.result.depth_correction = 0 - 35

\* C27: calculate_ms_magnitude returns a magnitude only when the band-pass
\* filtering of the vertical, north and east components all succeeded; no
\* magnitude is computed from samples a failed filter call handed back
\* unfiltered.
C27_MagnitudeNeedsFilteredData ==
    (MsReturned /\ ms.result.kind = "magnitude")
    => \A c \in 1..3 : ms.result.filtered[c]

\* C28: whenever apply_bandpass_filter reports success, the sequence it
\* returns has exactly as many samples as the input, input with some
\* non-finite samples included.
C28_SuccessKeepsLength ==
    (FltReturned /\ flt.result.status.success)
    => flt.result.data.len = flt.args.data.len

---------------------------------------------------------------------------
(* Claims about the size and the picks of the de-clustering step *)

\* how often record r occurs in list
Occurrences(list, r) == Cardinality({k \in 1..Len(list) : list[k] = r})

\* C29: _select_distributed_stations returns exactly
\* min(target_count, number of input stations) entries, each taken from the
\* input and no input entry returned twice, for every input list: lists
\* whose distances are all equal, lists whose farthest station lies on the
\* last bin edge and lists in which two entries are identical records
\* included.
C29_SelectionSize ==
    SelReturned =>
        /\ Len(sel.result) = Min(sel.target_count, Len(sel.stations))
        /\ \A k \in 1..Len(sel.result) :
               Occurrences(sel.result, sel.result[k])
                   <= Occurrences(sel.stations, sel.result[k])

\* distance d lies in bin i (0, 1, ...) of the n equal-width bins that
\* divide [lo, hi], the upper edge of the bin left out
InHalfOpenBin(d, i, n, lo, hi) ==
    n * lo + i * (hi - lo) <= n * d /\ n * d < n * lo + (i + 1) * (hi - lo)

\* |d - center of bin i|, times 2 n
CentreOff(d, i, n, lo, hi) == Abs(2 * n * d - 2 * n * lo - (2 * i + 1) * (hi - lo))

\* station a is the pick the rule "best priority, then nearest the center of
\* bin i" allows against station b: priority is the key of lines 613-617
PreferredTo(a, b, i, n, lo, hi) ==
    LET Priority(st) == << st.network_priority, 0 - st.sample_rate, st.channel_priority >>
    IN  \/ LexLess(Priority(a), Priority(b))
        \/ /\ Priority(a) = Priority(b)
           /\ CentreOff(a.distance_km, i, n, lo, hi) <= CentreOff(b.distance_km, i, n, lo, hi)

\* C22: when there are more candidates than slots, the de-clustering step
\* returns for every non-empty distance bin the station of that bin with
\* the best priority and, among those, nearest the bin's center; this on
\* the path for at most 100 candidates and on the path for more.
C22_BestNearestCenter ==
    (SelReturned /\ Len(sel.stations) > sel.target_count) =>
        LET n   == sel.target_count
            lo  == Smallest(Distances(sel.stations))
            hi  == Largest(Distances(sel.stations))
            Bin(i) == {k \in 1..Len(sel.stations) :
                         InHalfOpenBin(sel.stations[k].distance_km, i, n, lo, hi)}
        IN  \A i \in 0..(n - 1) :
                Bin(i) # {} =>
                    \E r \in 1..Len(sel.result) : \E k \in Bin(i) :
                        /\ sel.result[r] = sel.stations[k]
                        /\ \A j \in Bin(i) :
                               PreferredTo(sel.stations[k], sel.stations[j], i, n, lo, hi)

---------------------------------------------------------------------------
(* Claims about the inventory cache, the distance window and the probes *)

\* C26: a search served from the inventory cache has the same earthquake
\* location, distance window and origin-time window as the search that
\* stored the entry, so two earthquakes with different origin times never
\* share a cached inventory: the entry a search was served from holds the
\* stations the catalogue lists for that search's own origin time.
C26_CacheKeepsOriginTime ==
    (srch.pc # "idle" /\ srch.catalog = "cached") =>
        \A e \in inventory_cache :
            e.key = CacheKey(srch.args.earthquake, srch.args.min_distance_km, srch.args.max_distance_km)
            => e.inventory = Catalogue(srch.args.earthquake, srch.args.min_distance_km, srch.args.max_distance_km)

SelectedFamilyHeld(station, holds) ==
    CASE station.channel_priority = 1 -> "HH?" \in holds
      [] station.channel_priority = 2 -> "BH?" \in holds
      [] OTHER -> holds \ {"HH?", "BH?"} # {}

\* C24: a probe marks its station unavailable only after every channel
\* family the station offers was tried without data; so a station that was
\* selected on its channel family and has data for that family is marked
\* verified once its probe has run.
C24_SelectedFamilyVerified ==
    val.pc # "idle" =>
        \A i \in 1..Len(futures) :
            (futures[i] # "pending" /\ SelectedFamilyHeld(val.stations[i], val.holds[i]))
            => val.stations[i].data_verified = "True"

\* C30: for every order in which the probes complete, the list
\* _validate_stations_parallel returns holds only submitted stations, none
\* of them twice, each with data_verified True or False, and as many
\* verified stations as verified_count was when the collection stopped.
C30_ReturnedListConsistent ==
    val.pc = "returned" =>
        /\ \A k \in 1..Len(val.result) :
               /\ \E i \in 1..Len(val.stations) : val.result[k] = val.stations[i]
               /\ \A j \in 1..Len(val.result) : j # k => val.result[j] # val.result[k]
               /\ val.result[k].data_verified \in {"True", "False"}
        /\ Cardinality({k \in 1..Len(val.result) : val.result[k].data_verified = "True"}) = val.verified_count

\* C30's case: three probes and target_count 1: the probe of the last
\* station found no data and was collected before the second verified
\* result, so the collection ran to its end with verified_count 2
C30_Witness ==
    /\ val.pc = "returned"
    /\ val.target_count = 1
    /\ Len(val.stations) = 3
    /\ Len(val.result) = 3
    /\ val.verified_count = 2
    /\ val.stations[3].data_verified = "False"
    /\ val.result[3] = val.stations[3]

---------------------------------------------------------------------------
(* GEOSeis2_0.py: the peak-period step of render_analysis_magnitude_view *)

\* The window holds n samples and lasts T = n / sampling_rate seconds; the
\* positive frequencies of np.fft.fftfreq are k / T for k = 1 .. (n - 1) / 2,
\* so bin k has the period T / k.  A period is kept as the pair
\* [num |-> T, den |-> k] and compared by cross-multiplication.
Period(num, den) == [num |-> num, den |-> den]

\* line 2663: (periods >= 5) & (periods <= 100)
period_mask(p) == 5 * p.den <= p.num /\ p.num <= 100 * p.den

\* line 2673: (periods >= 15) & (periods <= 25)
ms_band_mask(p) == 15 * p.den <= p.num /\ p.num <= 25 * p.den

\* np.argmax over the bins of S, which lie in ascending order of period
\* (lines 2668-2670): the first of the largest amplitudes, that is the one
\* with the shortest period
peak_idx(S, fft_amps) ==
    CHOOSE k \in S : \A j \in S : fft_amps[j] < fft_amps[k] \/ (fft_amps[j] = fft_amps[k] /\ j <= k)

\* lines 2673-2688
peak_period(T, fft_amps) ==
    LET kept == {k \in 1..Len(fft_amps) : period_mask(Period(T, k))}
        band == {k \in kept : ms_band_mask(Period(T, k))}
    IN  IF band # {} THEN Period(T, peak_idx(band, fft_amps))
        ELSE IF kept # {} THEN Period(T, peak_idx(kept, fft_amps))
        ELSE Period(20, 1)

\* lines 2841-2842: deviation = abs(peak_period - 20.0) and the label of
\* the "Kvalitet" metric
quality(p) ==
    LET deviation == Abs(p.num - 20 * p.den)
    IN  IF deviation < 2 * p.den THEN "Optimal"
        ELSE IF deviation < 5 * p.den THEN "Acceptabel"
        ELSE "Suboptimal"

\* positive-frequency bins of a window
MaxBins == 6

\* window lengths in seconds: no bin between 5 and 100 s; bins there but
\* none between 15 and 25 s; bins at 15 s, at 25 s and inside the band
WindowSeconds == {4, 12, 60, 100}

BinAmplitudes == {1, 2, 3}

CallPeak ==
    /\ pk.pc = "idle"
    /\ \E T \in WindowSeconds, fft_amps \in [1..MaxBins -> BinAmplitudes] :
        \E p \in { peak_period(T, fft_amps) } :
            pk' = [pc |-> "returned",
                   args |-> [T |-> T, fft_amps |-> fft_amps],
                   result |-> [peak_period |-> p, quality |-> quality(p)]]
    /\ UNCHANGED << flt, ms, sel, val, futures, srch, inventory_cache, spk, wf, heap >>

SpecPeak == Init /\ [][CallPeak]_vars

---------------------------------------------------------------------------
(* Claims about the peak-period step *)

\* C25: the step returns the period of the largest amplitude within the
\* 15-25 s band when a spectral bin lies in that band, otherwise the
\* period of the largest amplitude within 5-100 s; with d the deviation of
\* the result from 20 s, the result is classified optimal when d < 2,
\* acceptable when 2 <= d <= 5 and low-quality only when d > 5.
C25_PeakPeriodAndQuality ==
    pk.pc = "returned" =>
        LET T    == pk.args.T
            amps == pk.args.fft_amps
            p    == pk.result.peak_period
            kept == {k \in 1..Len(amps) : 5 * k <= T /\ T <= 100 * k}
            band == {k \in kept : 15 * k <= T /\ T <= 25 * k}
            from == IF band # {} THEN band ELSE kept
            d    == Abs(p.num - 20 * p.den)
        IN  /\ from # {} =>
                  /\ p.num = T /\ p.den \in from
                  /\ \A j \in from : amps[j] <= amps[p.den]
            /\ d < 2 * p.den => pk.result.quality = "Optimal"
            /\ (2 * p.den <= d /\ d <= 5 * p.den) => pk.result.quality = "Acceptabel"
            /\ pk.result.quality = "Suboptimal" => d > 5 * p.den

=============================================================================
